---- MODULE Spec2Model ----
(***************************************************************************)
(* The attribution-and-ranking engine of pptftc: the fault-detection       *)
(* metric (metic.py), the Prioritizer and its driver (prioritize.py), over *)
(* the tables of models.py as data_extract.py fills them.                  *)
(*                                                                         *)
(* Python values are modelled as follows.                                  *)
(*  - an optional value (None or x) is the sequence <<>> or <<x>>;         *)
(*  - a dict is the sequence of its items in insertion order;              *)
(*  - a collections.Counter is a bag (Bags);                               *)
(*  - a float is the exact rational it stands for, n/d in lowest terms;    *)
(*    an exception raised while computing one is a value that names it,    *)
(*    which every later operation propagates;                              *)
(*  - a call's outcome is the value returned or the exception raised.      *)
(***************************************************************************)
EXTENDS Integers, Sequences, FiniteSets, Bags, TLC

VARIABLES
    \* ---- CalculateMetric.calculate, run on its own (metic.py) ----
    tests,          \* the ordering calculate was called with
    mpc,            \* "idle" | "loop" | "returned" | "raised"
    ti,             \* index of the next test of the for loop
    num_fail,       \* failing tests seen so far
    total_area,     \* the running sum
    first_score,    \* the score returned for the ordering with the failing
                    \* test first, kept by the caller that re-scores it last
    \* ---- the Fact Store (models.py tables, filled by data_extract.py) ----
    db,
    \* ---- Prioritizer (prioritize.py) ----
    METHOD_MAPPING, \* the class attribute
    pri,            \* the Prioritizer instances, in creation order
    \* ---- main() of prioritize.py ----
    pc,             \* "projects" | "commits" | "loaded" | "done" | "raised"
    error,          \* the exception main() ended with, or "" for none
    projects,       \* session.query(Project).all()
    pidx,           \* index of the next project of the outer loop
    commits,        \* the commits of the current project
    cidx,           \* index of the next commit of the inner loop
    results,        \* method -> list of scores
    commit_results, \* the last by_all() result
    commit_corr,    \* the last get_raw_values() result
    \* ---- a caller of Prioritizer other than main() ----
    assigned        \* the ids and hashes it assigned, in order

metric_vars == <<tests, mpc, ti, num_fail, total_area, first_score>>
driver_vars == <<db, METHOD_MAPPING, pri, pc, error, projects, pidx, commits,
                 cidx, results, commit_results, commit_corr>>
client_vars == <<assigned>>
vars == <<metric_vars, driver_vars, client_vars>>

-----------------------------------------------------------------------------
(* Bounds of the model. *)

\* longest ordering handed to calculate on its own
MaxOrder == 3
\* largest duration of a test handed to calculate on its own
MaxDuration == 2
\* most tests of a commit's suite
MaxTests == 2
\* largest run_time of a stored test
MaxRunTime == 1
\* most lines of a stored file
MaxLines == 2
\* most hunks of a stored diff
MaxHunks == 2
\* most lines a hunk adds
MaxNewLines == 2
MaxAssignments == 5
MaxInstances == 2

-----------------------------------------------------------------------------
(* Python values. *)

None == <<>>
Some(x) == <<x>>

RECURSIVE SumSeq(_)
SumSeq(s) == IF s = <<>> THEN 0 ELSE Head(s) + SumSeq(Tail(s))

Abs(x) == IF x < 0 THEN -x ELSE x

RECURSIVE Gcd(_, _)
Gcd(a, b) == IF b = 0 THEN a ELSE Gcd(b, a % b)

\* A number is [exc |-> "", n |-> _, d |-> _] with d > 0; an exception raised
\* in its place is [exc |-> <its name>, n |-> 0, d |-> 0].
Raise(e) == [exc |-> e, n |-> 0, d |-> 0]
ZeroDivisionError == Raise("ZeroDivisionError")
AttributeError == Raise("AttributeError")
IsRaised(x) == x.exc # ""

\* the number n/d (d > 0) in lowest terms
Rat(n, d) ==
    LET g == Gcd(Abs(n), d) IN [exc |-> "", n |-> n \div g, d |-> d \div g]
Num(i) == [exc |-> "", n |-> i, d |-> 1]

\* x / y, Python's true division
Div(x, y) ==
    IF IsRaised(x) THEN x
    ELSE IF IsRaised(y) THEN y
    ELSE IF y.n = 0 THEN ZeroDivisionError
    ELSE IF y.n < 0 THEN Rat(-(x.n * y.d), x.d * (-y.n))
    ELSE Rat(x.n * y.d, x.d * y.n)
\* x * y
Mul(x, y) ==
    IF IsRaised(x) THEN x
    ELSE IF IsRaised(y) THEN y
    ELSE Rat(x.n * y.n, x.d * y.d)
\* x + y
Add(x, y) ==
    IF IsRaised(x) THEN x
    ELSE IF IsRaised(y) THEN y
    ELSE Rat(x.n * y.d + y.n * x.d, x.d * y.d)
\* -x
Neg(x) == IF IsRaised(x) THEN x ELSE [x EXCEPT !.n = -x.n]
\* x < y and x <= y, on numbers
Less(x, y) == x.n * y.d < y.n * x.d
Leq(x, y) == x.n * y.d <= y.n * x.d

-----------------------------------------------------------------------------
(* metic.py: CalculateMetric.calculate *)

\* total_fail = sum(not test.is_passed for test in tests)
TotalFail(ts) ==
    SumSeq([i \in 1..Len(ts) |-> IF ts[i].is_passed THEN 0 ELSE 1])
\* total_run_time = sum(test.run_time for test in tests)
TotalRunTime(ts) == SumSeq([i \in 1..Len(ts) |-> ts[i].run_time])

\* a variant of PassArea: the failures still to come, counted against the test
PassAreaBehind(k, test, total_fail, total_run_time) ==
    Mul(Mul(Div(Num(k - total_fail), Num(total_fail)),
            Div(Num(test.run_time), Num(total_run_time))),
        Num(100))
\* the area of a passing test
PassArea(k, test, total_fail, total_run_time) ==
    Mul(Mul(Div(Num(k), Num(total_fail)),
            Div(Num(test.run_time), Num(total_run_time))),
        Num(100))

\* a variant of FailArea: the area without the half step of the test itself
FailAreaNoHalfStep(k, test, total_fail, total_run_time) ==
    Mul(Div(Mul(Div(Num(2 * k), Num(total_fail)),
                Div(Num(test.run_time), Num(total_run_time))),
            Num(2)),
        Num(100))
\* the area of a failing test
FailArea(k, test, total_fail, total_run_time) ==
    Mul(Div(Mul(Div(Num((2 * k) + 1), Num(total_fail)),
                Div(Num(test.run_time), Num(total_run_time))),
            Num(2)),
        Num(100))

\* a variant of NextNumFail: num_fail is never incremented
NumFailNeverCounted(k, test) == k
\* num_fail after the loop body has run on test
NextNumFail(k, test) == IF test.is_passed THEN k ELSE k + 1

\* area of one pass of the loop body
Area(k, test, ts) ==
    IF test.is_passed
    THEN PassArea(k, test, TotalFail(ts), TotalRunTime(ts))
    ELSE FailArea(k, test, TotalFail(ts), TotalRunTime(ts))

\* the whole call: the score, or ZeroDivisionError
RECURSIVE CalcFrom(_, _, _, _)
CalcFrom(ts, i, k, area) ==
    IF i > Len(ts) \/ IsRaised(area) THEN area
    ELSE CalcFrom(ts, i + 1, NextNumFail(k, ts[i]),
                  Add(area, Area(k, ts[i], ts)))
calculate(ts) == CalcFrom(ts, 1, 0, Num(0))

\* Test(run_time=.., is_passed=..) as calculate reads it
MetricTest(rt, passed) == [run_time |-> rt, is_passed |-> passed]
MetricTests ==
    {MetricTest(rt, p) : rt \in 0..MaxDuration, p \in BOOLEAN}
\* the ordering of the __main__ block
ExampleTests ==
    << MetricTest(5, FALSE), MetricTest(70, FALSE), MetricTest(10, TRUE),
       MetricTest(5, TRUE), MetricTest(10, TRUE) >>
Orderings ==
    UNION {[1..n -> MetricTests] : n \in 0..MaxOrder} \cup {ExampleTests}

\* a.calculate(tests) is entered: lines 7-10
Call ==
    /\ mpc = "idle"
    /\ mpc' = "loop"
    /\ ti' = 1
    /\ num_fail' = 0
    /\ total_area' = Num(0)
    /\ UNCHANGED <<tests, first_score>>
    /\ UNCHANGED <<driver_vars, client_vars>>

\* one pass of the for loop on a passing test: lines 13-15, 20
LoopPassed ==
    /\ mpc = "loop" /\ ti <= Len(tests) /\ tests[ti].is_passed
    /\ LET area == Area(num_fail, tests[ti], tests) IN
         IF IsRaised(area)
         THEN /\ mpc' = "raised"
              /\ UNCHANGED <<total_area, num_fail, ti>>
         ELSE /\ mpc' = "loop"
              /\ total_area' = Add(total_area, area)
              /\ num_fail' = NextNumFail(num_fail, tests[ti])
              /\ ti' = ti + 1
    /\ UNCHANGED <<tests, first_score>>
    /\ UNCHANGED <<driver_vars, client_vars>>

\* one pass of the for loop on a failing test: lines 16-20
LoopFailed ==
    /\ mpc = "loop" /\ ti <= Len(tests) /\ ~tests[ti].is_passed
    /\ LET area == Area(num_fail, tests[ti], tests) IN
         IF IsRaised(area)
         THEN /\ mpc' = "raised"
              /\ UNCHANGED <<total_area, num_fail, ti>>
         ELSE /\ mpc' = "loop"
              /\ total_area' = Add(total_area, area)
              /\ num_fail' = NextNumFail(num_fail, tests[ti])
              /\ ti' = ti + 1
    /\ UNCHANGED <<tests, first_score>>
    /\ UNCHANGED <<driver_vars, client_vars>>

\* return total_area: line 22
Return ==
    /\ mpc = "loop" /\ ti > Len(tests)
    /\ mpc' = "returned"
    /\ UNCHANGED <<tests, ti, num_fail, total_area, first_score>>
    /\ UNCHANGED <<driver_vars, client_vars>>

\* The caller keeps the score of an ordering whose first test failed and
\* calls calculate again with that test moved to the end, the others in place.
RescoreFirstPlacedLast ==
    /\ mpc = "returned" /\ first_score = None
    /\ Len(tests) >= 2 /\ ~tests[1].is_passed
    /\ first_score' = Some(total_area)
    /\ tests' = Tail(tests) \o <<tests[1]>>
    /\ mpc' = "idle"
    /\ UNCHANGED <<ti, num_fail, total_area>>
    /\ UNCHANGED <<driver_vars, client_vars>>

-----------------------------------------------------------------------------
(* Python lists and dicts *)

\* list[i] for a Python index i: 0-based, negative from the end; the value
\* "IndexError" stands for an index out of range
PyIndex(list, i) ==
    IF i >= 0 /\ i < Len(list) THEN list[i + 1]
    ELSE IF i < 0 /\ -i <= Len(list) THEN list[Len(list) + i + 1]
    ELSE "IndexError"

\* list[start:stop] = repl, for start, stop >= 0
SliceAssign(list, start, stop, repl) ==
    LET lo == IF start > Len(list) THEN Len(list) ELSE start
        hi0 == IF stop > Len(list) THEN Len(list) ELSE stop
        hi == IF hi0 < lo THEN lo ELSE hi0
    IN SubSeq(list, 1, lo) \o repl \o SubSeq(list, hi + 1, Len(list))

\* the items of a dict with key field f equal to k
Has(items, f, k) == \E i \in 1..Len(items) : items[i][f] = k
Lookup(items, f, k) == items[CHOOSE i \in 1..Len(items) : items[i][f] = k]

\* a variant of BagOfSeq: nothing is counted
BagOfNothing(list) == EmptyBag
\* Counter(list)
RECURSIVE BagOfSeq(_)
BagOfSeq(list) ==
    IF list = <<>> THEN EmptyBag
    ELSE SetToBag({Head(list)}) (+) BagOfSeq(Tail(list))
\* Counter([x] * n)
Copies(x, n) == IF n <= 0 THEN EmptyBag ELSE [e \in {x} |-> n]

\* the characters of a commit hash, which is what iterating a str yields
Chars(hash) ==
    << "c", CASE hash = "c0" -> "0" [] hash = "c1" -> "1"
              [] hash = "c2" -> "2" [] OTHER -> "3" >>

\* the permutations of a list: what random.shuffle can leave
Shuffles(list) ==
    {[i \in 1..Len(list) |-> list[f[i]]] :
        f \in {g \in [1..Len(list) -> 1..Len(list)] :
                 \A i, j \in 1..Len(list) : g[i] = g[j] => i = j}}

\* a call's outcome: the value it returned, or the exception it raised
Ok(v) == [exc |-> "", val |-> v]
Failed(e) == [exc |-> e, val |-> <<>>]

-----------------------------------------------------------------------------
(* sorted(iterable, key=...) *)

\* a key is a tuple of numbers; tuples compare lexicographically
RECURSIVE KeyLess(_, _)
KeyLess(a, b) ==
    IF a = <<>> \/ b = <<>> THEN a = <<>> /\ b # <<>>
    ELSE IF Less(a[1], b[1]) THEN TRUE
    ELSE IF Less(b[1], a[1]) THEN FALSE
    ELSE KeyLess(Tail(a), Tail(b))

\* the first exception raised while the keys are computed, "" for none
RECURSIVE FirstRaisedIn(_)
FirstRaisedIn(key) ==
    IF key = <<>> THEN ""
    ELSE IF IsRaised(key[1]) THEN key[1].exc
    ELSE FirstRaisedIn(Tail(key))
RECURSIVE FirstRaised(_)
FirstRaised(keys) ==
    IF keys = <<>> THEN ""
    ELSE IF FirstRaisedIn(keys[1]) # "" THEN FirstRaisedIn(keys[1])
    ELSE FirstRaised(Tail(keys))

\* e placed after every element whose key is not greater than its own
RECURSIVE Insert(_, _)
Insert(out, e) ==
    IF out = <<>> THEN <<e>>
    ELSE IF KeyLess(e.key, Head(out).key) THEN <<e>> \o out
    ELSE <<Head(out)>> \o Insert(Tail(out), e)

RECURSIVE SortedFrom(_, _, _)
SortedFrom(out, items, keys) ==
    IF items = <<>> THEN out
    ELSE SortedFrom(Insert(out, [item |-> Head(items), key |-> Head(keys)]),
                    Tail(items), Tail(keys))

\* sorted(items, key=...), keys[i] the key of items[i]: a stable sort
sorted(items, keys) ==
    IF FirstRaised(keys) # "" THEN Failed(FirstRaised(keys))
    ELSE LET out == SortedFrom(<<>>, items, keys)
         IN Ok([i \in 1..Len(out) |-> out[i].item])

-----------------------------------------------------------------------------
(* prioritize.py: Prioritizer *)

\* PrioritizeMethod, in definition order
Methods ==
    << "BaseRandom", "BaseLOCInc", "BaseLOCDesc", "BaseCoverageInc",
       "BaseCoverageDesc", "BaseRuntimeInc", "BaseRuntimeDesc",
       "LatestCommitRatio", "LatestCommitCount", "CommitAheadAverage",
       "CommitAheadSum" >>
MethodSet == {Methods[i] : i \in 1..Len(Methods)}

\* the bound method (or partial) stored under a tag
Bound(method, self, func, desc) ==
    [method |-> method, self |-> self, func |-> func, desc |-> desc]

\* the dict __init__ stores in Prioritizer.METHOD_MAPPING, bound to self:
\* lines 49-61
MethodMappingOf(self) ==
    << Bound("BaseRandom", self, "by_random", FALSE),
       Bound("BaseLOCInc", self, "by_loc", FALSE),
       Bound("BaseLOCDesc", self, "by_loc", TRUE),
       Bound("BaseCoverageInc", self, "by_coverage", FALSE),
       Bound("BaseCoverageDesc", self, "by_coverage", TRUE),
       Bound("BaseRuntimeInc", self, "by_run_time", FALSE),
       Bound("BaseRuntimeDesc", self, "by_run_time", TRUE),
       Bound("LatestCommitRatio", self, "by_latest_commit_count", FALSE),
       Bound("LatestCommitCount", self, "by_latest_commit_ratio", FALSE),
       Bound("CommitAheadAverage", self, "by_commit_ahead_average", FALSE),
       Bound("CommitAheadSum", self, "by_commit_ahead_sum", FALSE) >>

\* the fields __init__ sets: lines 35-46 (the session is db)
NewPrioritizer ==
    [ _target_project |-> None, _target_commit |-> None,
      _data_commits |-> None, _data_files |-> None, _data_tests |-> None,
      _data_coverages |-> None, _data_diffs |-> None,
      _covering_hashes |-> None ]

\* bisect.bisect_left(a, x)
RECURSIVE bisect_left_from(_, _, _, _)
bisect_left_from(a, x, lo, hi) ==
    IF lo >= hi THEN lo
    ELSE LET mid == (lo + hi) \div 2 IN
         IF a[mid + 1] < x THEN bisect_left_from(a, x, mid + 1, hi)
         ELSE bisect_left_from(a, x, lo, mid)
bisect_left(a, x) == bisect_left_from(a, x, 0, Len(a))

\* lines 284-286
_has_value(list, value) ==
    LET index == bisect_left(list, value) IN
    IF index < Len(list) THEN list[index + 1] = value ELSE FALSE

\* line 240: old_lines == 0 and new_lines > 0
IsAdded(hunk) == hunk[2] = 0 /\ hunk[4] > 0

\* lines 238-247, one pass of the loop over the hunks of a file;
\* st is [counter |-> covering_hashes, file_hashes |-> file_hashes]
HunkStep(self, st, hunk, covered_line, file_length) ==
    LET old_start == hunk[1]
        old_lines == hunk[2]
        new_start == hunk[3]
        new_lines == hunk[4]
        hash == self._target_commit[1].hash
    IN IF IsAdded(hunk)
       THEN LET prev_covered ==
                    IF new_start > 1
                    THEN _has_value(covered_line, new_start - 1) ELSE TRUE
                next_covered ==
                    IF new_start <= file_length
                    THEN _has_value(covered_line, new_start) ELSE TRUE
            IN IF prev_covered /\ next_covered
               THEN [st EXCEPT !.counter = @ (+) Copies(hash, new_lines)]
               ELSE st
       ELSE [st EXCEPT
               !.file_hashes = SliceAssign(@, old_start, old_lines, Chars(hash))]

RECURSIVE HunkLoop(_, _, _, _, _)
HunkLoop(self, st, hunks, covered_line, file_length) ==
    IF hunks = <<>> THEN st
    ELSE HunkLoop(self, HunkStep(self, st, Head(hunks), covered_line, file_length),
                  Tail(hunks), covered_line, file_length)

\* a variant of BlameRead: the copy the hunks rewrote is read
RewrittenBlame(file, file_hashes) == file_hashes
\* line 249: the list the covered lines are looked up in
BlameRead(file, file_hashes) == file.line_touched_hashes

\* lines 227-250, one pass of the loop over self._data_files
FileStep(self, covering_hashes, file, test_path) ==
    LET file_name == file.path
        diffs == self._data_diffs[1]
        diff_hunks == IF Has(diffs, "path", file_name)
                      THEN Lookup(diffs, "path", file_name).hunks ELSE <<>>
        coverages == Lookup(self._data_coverages[1], "tc_id", test_path).files
    IN IF ~Has(coverages, "file_path", file_name) THEN covering_hashes
       ELSE LET coverage == Lookup(coverages, "file_path", file_name)
                covered_line == coverage.lines_covered
                file_length == Len(file.line_touched_hashes)
                st == HunkLoop(self,
                               [counter |-> covering_hashes,
                                file_hashes |-> file.line_touched_hashes],
                               diff_hunks, covered_line, file_length)
                read == BlameRead(file, st.file_hashes)
            IN st.counter (+)
               BagOfSeq([i \in 1..Len(covered_line) |->
                           PyIndex(read, covered_line[i] - 1)])

RECURSIVE FileLoop(_, _, _, _)
FileLoop(self, covering_hashes, files, test_path) ==
    IF files = <<>> THEN covering_hashes
    ELSE FileLoop(self, FileStep(self, covering_hashes, Head(files), test_path),
                  Tail(files), test_path)

\* lines 224-252
_get_covering_hashes(self, test_path) ==
    FileLoop(self, EmptyBag, self._data_files[1], test_path)

\* lines 254-255: Counter[key] is 0 for a missing key
_get_latest_commit_count(self, test) ==
    CopiesIn(self._target_commit[1].hash,
             Lookup(self._covering_hashes[1], "tc_id", test.id).counter)

\* commit.count, on a row of models.Commit: the class has the columns
\* project_id, hash, parent, timestamp and id_num, and no attribute count
CommitCount(commit) ==
    IF "count" \in DOMAIN commit THEN Num(commit["count"]) ELSE AttributeError

\* lines 257-272
_get_ahead_count(self, test) ==
    LET counter == Lookup(self._covering_hashes[1], "tc_id", test.id).counter
        data_commits == self._data_commits[1]
        recorded == SelectSeq(data_commits,
                              LAMBDA c : c.hash \in BagToSet(counter))
        commit_count_list == [i \in 1..Len(recorded) |-> CommitCount(recorded[i])]
    IN IF recorded = <<>> THEN Num(0)
       ELSE IF \E i \in 1..Len(recorded) : IsRaised(commit_count_list[i])
       THEN commit_count_list[CHOOSE i \in 1..Len(recorded) :
                                 IsRaised(commit_count_list[i])]
       ELSE LET min_commit_count ==
                    CHOOSE m \in {commit_count_list[i].n : i \in 1..Len(recorded)} :
                       \A i \in 1..Len(recorded) : m <= commit_count_list[i].n
            IN Num(SumSeq([i \in 1..Len(recorded) |->
                             (commit_count_list[i].n - min_commit_count)
                             * CopiesIn(recorded[i].hash, counter)]))

\* a variant of _get_covered_loc: the sum, without the guard against 0
CoveredLocUnguarded(self, test) ==
    LET coverages == Lookup(self._data_coverages[1], "tc_id", test.id).files
    IN SumSeq([i \in 1..Len(coverages) |-> Len(coverages[i].lines_covered)])
\* lines 274-277
_get_covered_loc(self, test) ==
    LET coverages == Lookup(self._data_coverages[1], "tc_id", test.id).files
        result == SumSeq([i \in 1..Len(coverages) |->
                            Len(coverages[i].lines_covered)])
    IN IF result # 0 THEN result ELSE 1

\* a variant of has_failed_test: any passing test
HasPassedTest(self) ==
    \E i \in 1..Len(self._data_tests[1]) : self._data_tests[1][i].is_passed
\* lines 127-129
has_failed_test(self) ==
    \E i \in 1..Len(self._data_tests[1]) : ~self._data_tests[1][i].is_passed

\* the values of self._data_tests, in insertion order
TestValues(self) == self._data_tests[1]
Multiplier(desc) == IF desc THEN -1 ELSE 1

\* lines 131-135; shuffled is what random.shuffle left
by_random(self, shuffled) == Ok(shuffled)

\* lines 137-142
by_loc(self, desc) ==
    LET ts == TestValues(self) IN
    sorted(ts, [i \in 1..Len(ts) |->
                  << Num(ts[i].loc * Multiplier(desc)), Num(ts[i].run_time) >>])

\* lines 144-149
by_coverage(self, desc) ==
    LET ts == TestValues(self) IN
    sorted(ts, [i \in 1..Len(ts) |->
                  << Num(_get_covered_loc(self, ts[i]) * Multiplier(desc)),
                     Num(ts[i].run_time) >>])

\* lines 151-156
by_run_time(self, desc) ==
    LET ts == TestValues(self) IN
    sorted(ts, [i \in 1..Len(ts) |->
                  << Num(ts[i].run_time * Multiplier(desc)) >>])

\* lines 158-162
by_latest_commit_count(self) ==
    LET ts == TestValues(self) IN
    sorted(ts, [i \in 1..Len(ts) |->
                  << Num(-_get_latest_commit_count(self, ts[i])),
                     Num(ts[i].run_time) >>])

\* lines 164-168
by_latest_commit_ratio(self) ==
    LET ts == TestValues(self) IN
    sorted(ts, [i \in 1..Len(ts) |->
                  << Neg(Div(Num(_get_latest_commit_count(self, ts[i])),
                             Num(_get_covered_loc(self, ts[i])))) >>])

\* lines 170-174
by_commit_ahead_sum(self) ==
    LET ts == TestValues(self) IN
    sorted(ts, [i \in 1..Len(ts) |->
                  << _get_ahead_count(self, ts[i]), Num(ts[i].run_time) >>])

\* lines 176-180
by_commit_ahead_average(self) ==
    LET ts == TestValues(self) IN
    sorted(ts, [i \in 1..Len(ts) |->
                  << Div(_get_ahead_count(self, ts[i]),
                         Num(_get_covered_loc(self, ts[i]))) >>])

\* func() for one item of METHOD_MAPPING; objs are the instances, and the
\* method runs on the instance it is bound to
CallBound(objs, bound, shuffled) ==
    LET self == objs[bound.self] IN
    CASE bound.func = "by_random" -> by_random(self, shuffled)
      [] bound.func = "by_loc" -> by_loc(self, bound.desc)
      [] bound.func = "by_coverage" -> by_coverage(self, bound.desc)
      [] bound.func = "by_run_time" -> by_run_time(self, bound.desc)
      [] bound.func = "by_latest_commit_count" -> by_latest_commit_count(self)
      [] bound.func = "by_latest_commit_ratio" -> by_latest_commit_ratio(self)
      [] bound.func = "by_commit_ahead_sum" -> by_commit_ahead_sum(self)
      [] OTHER -> by_commit_ahead_average(self)

\* lines 182-186: the dict comprehension over METHOD_MAPPING.items().  The
\* outcome's val is the dict built, [method, tests] items in insertion order;
\* when a call raises, exc names the exception and val is what the
\* comprehension had built before it.
RECURSIVE ByAllFrom(_, _, _, _)
ByAllFrom(objs, mapping, shuffled, built) ==
    IF mapping = <<>> THEN Ok(built)
    ELSE LET got == CallBound(objs, Head(mapping), shuffled) IN
         IF got.exc # "" THEN [exc |-> got.exc, val |-> built]
         ELSE ByAllFrom(objs, Tail(mapping), shuffled,
                        Append(built, [method |-> Head(mapping).method,
                                       tests |-> got.val]))
by_all(objs, mapping, shuffled) == ByAllFrom(objs, mapping, shuffled, <<>>)

RawMethods ==
    << "BaseLOCDesc", "BaseCoverageInc", "BaseRuntimeInc", "LatestCommitCount",
       "LatestCommitRatio", "CommitAheadSum", "CommitAheadAverage" >>

\* lines 199-220: what one pass of the loop appends, in order
RawRow(self, test) ==
    << Num(test.loc),
       Num(_get_covered_loc(self, test)),
       Num(test.run_time),
       Num(_get_latest_commit_count(self, test)),
       Div(Num(_get_latest_commit_count(self, test)),
           Num(_get_covered_loc(self, test))),
       _get_ahead_count(self, test),
       Div(_get_ahead_count(self, test), Num(_get_covered_loc(self, test))) >>

\* lines 188-222
get_raw_values(self) ==
    LET ts == TestValues(self)
        rows == [i \in 1..Len(ts) |-> RawRow(self, ts[i])]
    IN IF FirstRaised(rows) # "" THEN Failed(FirstRaised(rows))
       ELSE Ok([j \in 1..Len(RawMethods) |->
                  [method |-> RawMethods[j],
                   values |-> [i \in 1..Len(ts) |-> rows[i][j]]]])

\* lines 67-78: self.target_project = value
target_project_set(self, value) ==
    [self EXCEPT
       !._target_project = Some(value),
       !._data_commits =
           Some(SelectSeq(db.commit, LAMBDA c : c.project_id = value.id)),
       !._data_files = None,
       !._data_tests = None,
       !._data_coverages = None,
       !._data_diffs = None,
       !._covering_hashes = None]

\* the rows the queries of lines 88-115 return for self.target_commit = value
FilesOf(self, value) ==
    SelectSeq(db.file,
        LAMBDA r : /\ r.project_id = self._target_project[1].id
                   /\ r.commit_hash = value.parent)
TestsOf(self, value) ==
    SelectSeq(db.test,
        LAMBDA r : /\ r.project_id = self._target_project[1].id
                   /\ r.commit_hash = value.parent)
DiffsOf(self, value) ==
    SelectSeq(db.diff,
        LAMBDA r : /\ r.project_id = self._target_project[1].id
                   /\ r.commit_hash = value.hash)
CoveragesOf(self, value, test_id) ==
    SelectSeq(db.coverage,
        LAMBDA r : /\ r.project_id = self._target_project[1].id
                   /\ r.commit_hash = value.parent
                   /\ r.tc_id = test_id)

\* lines 86-120 up to the point where `done` queries have returned: the
\* files, the tests and the diffs are queries 1-3, the coverages of the k-th
\* test is query 3 + k
Loaded(self, value, done) ==
    LET ts == TestsOf(self, value)
        s0 == [self EXCEPT !._target_commit = Some(value)]
        s1 == IF done >= 1
              THEN [s0 EXCEPT !._data_files = Some(FilesOf(self, value))]
              ELSE s0
        s2 == IF done >= 2 THEN [s1 EXCEPT !._data_tests = Some(ts)] ELSE s1
        s3 == IF done >= 3
              THEN [s2 EXCEPT !._data_diffs = Some(DiffsOf(self, value)),
                              !._data_coverages = Some(<<>>)]
              ELSE s2
    IN IF done <= 3 THEN s3
       ELSE [s3 EXCEPT !._data_coverages =
               Some([i \in 1..(done - 3) |->
                       [tc_id |-> ts[i].id,
                        files |-> CoveragesOf(self, value, ts[i].id)]])]

\* variant: the multisets are computed only when none are cached
target_commit_set_keeping_cache(self, value) ==
    LET ts == TestsOf(self, value)
        s == Loaded(self, value, 3 + Len(ts))
    IN IF self._covering_hashes # None THEN s
       ELSE [s EXCEPT !._covering_hashes =
               Some([i \in 1..Len(ts) |->
                       [tc_id |-> ts[i].id,
                        counter |-> _get_covering_hashes(s, ts[i].id)]])]

\* lines 84-125: self.target_commit = value
target_commit_set(self, value) ==
    LET ts == TestsOf(self, value)
        s == Loaded(self, value, 3 + Len(ts))
    IN [s EXCEPT !._covering_hashes =
          Some([i \in 1..Len(ts) |->
                  [tc_id |-> ts[i].id,
                   counter |-> _get_covering_hashes(s, ts[i].id)]])]

-----------------------------------------------------------------------------
(* prioritize.py: main *)

\* lines 323-324: results[method].append(calc.calculate(tests)) for every item
RECURSIVE AppendScores(_, _)
AppendScores(res, items) ==
    IF items = <<>> THEN Ok(res)
    ELSE LET score == calculate(Head(items).tests) IN
         IF IsRaised(score) THEN [exc |-> score.exc, val |-> res]
         ELSE AppendScores(
                [res EXCEPT ![Head(items).method] = Append(@, score)],
                Tail(items))

\* the for loop over commits moves on: the next commit, or the next project
NextCommit ==
    /\ cidx' = cidx + 1
    /\ IF cidx + 1 > Len(commits)
       THEN pc' = "projects" /\ pidx' = pidx + 1
       ELSE pc' = "commits" /\ pidx' = pidx

\* lines 303-308
SetTargetProject ==
    /\ pc = "projects" /\ pidx <= Len(projects)
    /\ LET project == projects[pidx]
           found == SelectSeq(db.commit, LAMBDA c : c.project_id = project.id)
       IN /\ commits' = found
          /\ pri' = [pri EXCEPT ![1] = target_project_set(@, project)]
          /\ cidx' = 1
          /\ IF found = <<>>
             THEN pc' = "projects" /\ pidx' = pidx + 1
             ELSE pc' = "commits" /\ pidx' = pidx
    /\ UNCHANGED <<db, METHOD_MAPPING, error, projects, results,
                   commit_results, commit_corr>>
    /\ UNCHANGED <<metric_vars, client_vars>>

\* lines 310-311: the assignment runs to its end
SetTargetCommit ==
    /\ pc = "commits" /\ cidx <= Len(commits)
    /\ pri' = [pri EXCEPT ![1] = target_commit_set(@, commits[cidx])]
    /\ pc' = "loaded"
    /\ UNCHANGED <<db, METHOD_MAPPING, error, projects, pidx, commits, cidx,
                   results, commit_results, commit_corr>>
    /\ UNCHANGED <<metric_vars, client_vars>>

\* lines 310-311: a query of the assignment raises; nothing in the setter or
\* in main catches it
SetTargetCommitRaises ==
    /\ pc = "commits" /\ cidx <= Len(commits)
    /\ \E done \in 0..(2 + Len(TestsOf(pri[1], commits[cidx]))) :
          pri' = [pri EXCEPT ![1] = Loaded(@, commits[cidx], done)]
    /\ pc' = "raised"
    /\ error' = "OperationalError"
    /\ UNCHANGED <<db, METHOD_MAPPING, projects, pidx, commits, cidx,
                   results, commit_results, commit_corr>>
    /\ UNCHANGED <<metric_vars, client_vars>>

\* lines 313-314
SkipCommit ==
    /\ pc = "loaded" /\ ~has_failed_test(pri[1])
    /\ NextCommit
    /\ UNCHANGED <<db, METHOD_MAPPING, pri, error, projects, commits,
                   results, commit_results, commit_corr>>
    /\ UNCHANGED <<metric_vars, client_vars>>

\* lines 316-324.  commit_results also records the commit by_all ran for.
EvaluateCommit ==
    /\ pc = "loaded" /\ has_failed_test(pri[1])
    /\ \E shuffled \in Shuffles(TestValues(pri[METHOD_MAPPING[1][1].self])) :
         LET got == by_all(pri, METHOD_MAPPING[1], shuffled)
             raw == get_raw_values(pri[1])
             app == AppendScores(results, got.val)
             raised == IF got.exc # "" THEN got.exc
                       ELSE IF raw.exc # "" THEN raw.exc
                       ELSE app.exc
         IN /\ commit_results' =
                  Some([commit |-> pri[1]._target_commit[1].hash,
                        exc |-> got.exc, val |-> got.val])
            /\ commit_corr' = IF got.exc = "" /\ raw.exc = ""
                              THEN Some(raw.val) ELSE commit_corr
            /\ results' = IF got.exc = "" /\ raw.exc = ""
                          THEN app.val ELSE results
            /\ IF raised # ""
               THEN /\ pc' = "raised" /\ error' = raised
                    /\ UNCHANGED <<pidx, cidx>>
               ELSE NextCommit /\ error' = error
    /\ UNCHANGED <<db, METHOD_MAPPING, pri, projects, commits>>
    /\ UNCHANGED <<metric_vars, client_vars>>

\* lines 326-330: the means are printed; sum(metrics) / len(metrics) raises
\* when no commit was scored
Report ==
    /\ pc = "projects" /\ pidx > Len(projects)
    /\ IF \E i \in 1..Len(Methods) : results[Methods[i]] = <<>>
       THEN pc' = "raised" /\ error' = "ZeroDivisionError"
       ELSE pc' = "done" /\ error' = error
    /\ UNCHANGED <<db, METHOD_MAPPING, pri, projects, pidx, commits, cidx,
                   results, commit_results, commit_corr>>
    /\ UNCHANGED <<metric_vars, client_vars>>

Next ==
    \/ SetTargetProject
    \/ SetTargetCommit
    \/ SetTargetCommitRaises
    \/ SkipCommit
    \/ EvaluateCommit
    \/ Report

-----------------------------------------------------------------------------
(* The Fact Store: models.py rows as data_extract.py writes them.  The       *)
(* columns nothing here reads (Project.git_url, Commit.timestamp) are left   *)
(* out.                                                                      *)

ProjectRow(id) == [id |-> id]
CommitRow(p, hash, parent, id_num) ==
    [project_id |-> p, hash |-> hash, parent |-> parent, id_num |-> id_num]
TestRow(p, hash, id, is_passed, run_time, loc) ==
    [project_id |-> p, commit_hash |-> hash, id |-> id,
     is_passed |-> is_passed, run_time |-> run_time, loc |-> loc]
\* data_extract.py lines 248-251: the list starts with None, then one owner
\* per line
FileRow(p, hash, path, owners) ==
    [project_id |-> p, commit_hash |-> hash, path |-> path,
     line_touched_hashes |-> <<"None">> \o owners]
DiffRow(p, hash, path, hunks) ==
    [project_id |-> p, commit_hash |-> hash, path |-> path, hunks |-> hunks]
CoverageRow(p, hash, tc_id, path, lines) ==
    [project_id |-> p, commit_hash |-> hash, tc_id |-> tc_id,
     file_path |-> path, lines_covered |-> lines]

TestIds == << "t1", "t2", "t3", "t4" >>

\* Project p1 has the commits c1 (the most recent), c2 and c3, each the parent
\* of the one before; c3's parent c0 is older than the walk reached: it owns
\* lines and has no Commit row.  Project p2 has no commit.
ProjectTable == << ProjectRow("p1"), ProjectRow("p2") >>
CommitTable ==
    << CommitRow("p1", "c1", "c2", 1), CommitRow("p1", "c2", "c3", 2),
       CommitRow("p1", "c3", "c0", 3) >>

\* the owner of line i of file f1 at c2
OwnerOfLine(i) == IF i % 2 = 1 THEN "c2" ELSE "c0"
Owners(len) == [i \in 1..len |-> OwnerOfLine(i)]

\* the sorted lists of distinct lines of a file of len lines
RECURSIVE SortedLists(_, _)
SortedLists(from, len) ==
    {<<>>} \cup
    UNION {{<<l>> \o rest : rest \in SortedLists(l + 1, len)} : l \in from..len}

\* The hunks git reports for one file of len lines with no context lines, in
\* order of position: an insertion after old line a is (a, 0, a+1+shift, n),
\* a deletion of m lines from s is (s, m, s-1+shift, 0) and a modification is
\* (s, m, s+shift, n), shift being the lines added less the lines removed by
\* the hunks before it.  prev is the last old line an earlier hunk touched.
HunksAfter(len, prev, shift) ==
    {[t |-> <<a, 0, a + 1 + shift, n>>, end |-> a, delta |-> n] :
        a \in (IF prev < 0 THEN 0 ELSE prev + 1)..len, n \in 1..MaxNewLines}
    \cup
    UNION {{[t |-> <<st, m, IF n = 0 THEN st - 1 + shift ELSE st + shift, n>>,
             end |-> st + m - 1, delta |-> n - m] :
              m \in 1..(len - st + 1), n \in 0..MaxNewLines} :
           st \in (IF prev < 0 THEN 1 ELSE prev + 2)..len}
RECURSIVE HunkLists(_, _, _, _)
HunkLists(len, prev, shift, most) ==
    {<<>>} \cup
    (IF most = 0 THEN {}
     ELSE UNION {{<<h.t>> \o rest :
                    rest \in HunkLists(len, h.end, shift + h.delta, most - 1)} :
                 h \in HunksAfter(len, prev, shift)})

\* a suite of n tests stored under a commit, in table order
SuitesOf(hash, n) ==
    {[i \in 1..n |-> TestRow("p1", hash, TestIds[i], a[i].p, a[i].rt, i)] :
        a \in [1..n -> [p : BOOLEAN, rt : 0..MaxRunTime]]}
Suites(hash) == UNION {SuitesOf(hash, n) : n \in 0..MaxTests}
\* no test, one passing test or one failing test
SimpleSuites(hash) ==
    { <<>>, << TestRow("p1", hash, "t1", TRUE, 1, 1) >>,
      << TestRow("p1", hash, "t1", FALSE, 1, 1) >> }

Store(test, file, diff, coverage) ==
    [project |-> ProjectTable, commit |-> CommitTable, test |-> test,
     file |-> file, diff |-> diff, coverage |-> coverage]

\* Stores that vary the suites: any suite under c2, a simple one under c1 and
\* under c3; the first test of c2 may cover line 2 of a two-line file f1.
SuiteStores ==
    {Store(s1 \o s2 \o s3,
           IF covered /\ s2 # <<>>
           THEN << FileRow("p1", "c2", "f1", Owners(2)) >> ELSE <<>>,
           <<>>,
           IF covered /\ s2 # <<>>
           THEN << CoverageRow("p1", "c2", "t1", "f1", <<2>>) >> ELSE <<>>) :
        s1 \in SimpleSuites("c1"), s2 \in Suites("c2"),
        s3 \in SimpleSuites("c3"), covered \in BOOLEAN}

\* Stores that vary the facts of one file: under c2 the failing test t1 and
\* the passing test t2, which covers nothing; f1 has up to MaxLines lines, t1
\* has any coverage of it or none, and c1 changes it by any hunks or not at
\* all.  The one test under c3 passes.
FileStores ==
    UNION {UNION {UNION {
        {Store(<< TestRow("p1", "c2", "t1", FALSE, 1, 1),
                  TestRow("p1", "c2", "t2", TRUE, 2, 2),
                  TestRow("p1", "c3", "t1", TRUE, 1, 1) >>,
               << FileRow("p1", "c2", "f1", Owners(len)) >>,
               IF hunks = <<>> /\ ~changed THEN <<>>
               ELSE << DiffRow("p1", "c1", "f1", hunks) >>,
               IF lines = <<>> /\ ~touched THEN <<>>
               ELSE << CoverageRow("p1", "c2", "t1", "f1", lines) >>) :
            changed \in BOOLEAN, touched \in BOOLEAN} :
        hunks \in HunkLists(len, -1, 0, MaxHunks)} :
        lines \in SortedLists(1, len)} :
        len \in 0..MaxLines}

\* Stores that vary what two tests cover: under c2 the tests t1 (failing) and
\* t2, each with a run time, and each covering f1 (two lines), line 1 of it,
\* no line of it, or having no Coverage row; c1 inserts a line at the top of
\* f1 or leaves it alone.  The one test under c3 passes.
CoverageChoices == { <<>>, << <<>> >>, << <<1>> >>, << <<1, 2>> >> }
RankStores ==
    {Store(<< TestRow("p1", "c2", "t1", FALSE, rt1, 2),
              TestRow("p1", "c2", "t2", p2, rt2, 1),
              TestRow("p1", "c3", "t1", TRUE, 1, 1) >>,
           << FileRow("p1", "c2", "f1", Owners(2)) >>,
           IF inserted THEN << DiffRow("p1", "c1", "f1", << <<0, 0, 1, 1>> >>) >>
           ELSE <<>>,
           (IF cov1 = <<>> THEN <<>>
            ELSE << CoverageRow("p1", "c2", "t1", "f1", cov1[1]) >>)
           \o (IF cov2 = <<>> THEN <<>>
               ELSE << CoverageRow("p1", "c2", "t2", "f1", cov2[1]) >>)) :
        rt1 \in 0..MaxRunTime, rt2 \in 0..MaxRunTime, p2 \in BOOLEAN,
        inserted \in BOOLEAN, cov1 \in CoverageChoices, cov2 \in CoverageChoices}

\* main() has run lines 290-301 on a store: one Prioritizer, whose __init__
\* filled METHOD_MAPPING, the projects read and the results empty
InitMain(stores) ==
    /\ db \in stores
    /\ METHOD_MAPPING = Some(MethodMappingOf(1))
    /\ pri = << NewPrioritizer >>
    /\ pc = "projects" /\ error = ""
    /\ projects = db.project /\ pidx = 1
    /\ commits = <<>> /\ cidx = 1
    /\ results = [m \in MethodSet |-> <<>>]
    /\ commit_results = None /\ commit_corr = None
    /\ assigned = <<>>

\* main() is not running
DriverIdle ==
    /\ db = Store(<<>>, <<>>, <<>>, <<>>)
    /\ METHOD_MAPPING = None /\ pri = <<>>
    /\ pc = "off" /\ error = "" /\ projects = <<>> /\ pidx = 1
    /\ commits = <<>> /\ cidx = 1 /\ results = [m \in MethodSet |-> <<>>]
    /\ commit_results = None /\ commit_corr = None
    /\ assigned = <<>>

\* calculate is not running on its own
MetricIdle ==
    /\ tests = <<>> /\ mpc = "off" /\ ti = 1 /\ num_fail = 0
    /\ total_area = Num(0) /\ first_score = None

InitMetric ==
    /\ tests \in Orderings
    /\ mpc = "idle" /\ ti = 1 /\ num_fail = 0
    /\ total_area = Num(0) /\ first_score = None
    /\ DriverIdle

NextMetric ==
    \/ Call
    \/ LoopPassed
    \/ LoopFailed
    \/ Return
    \/ RescoreFirstPlacedLast

\* calculate applied to every bounded ordering
SpecMetric == InitMetric /\ [][NextMetric]_vars

\* main() on the stores that vary the suites
Init == InitMain(SuiteStores) /\ MetricIdle
Spec == Init /\ [][Next]_vars

\* main() on the stores that vary the facts of one file
InitAttr == InitMain(FileStores) /\ MetricIdle
SpecAttr == InitAttr /\ [][Next]_vars

\* main() on the stores that vary what two tests cover
InitRank == InitMain(RankStores) /\ MetricIdle
SpecRank == InitRank /\ [][Next]_vars

-----------------------------------------------------------------------------
(* prioritize.py: the Prioritizer class used by a caller other than main *)

\* Project p2 has the commit d1, whose parent is d2.
ClientCommitTable == CommitTable \o << CommitRow("p2", "d1", "d2", 1) >>

\* Stores with facts under both projects.  Under c2 of p1 the failing test t1
\* and the passing test t2 over the two-line file f1, which t1 covers as in
\* CoverageChoices and c1 changes by an insertion at the top or not at all;
\* under c3 the failing test t1 covering line 1 of f1; under d2 of p2 the
\* failing test t3 covering line 1 of g1.
ClientStores ==
    {[Store(<< TestRow("p1", "c2", "t1", FALSE, 1, 1),
               TestRow("p1", "c2", "t2", TRUE, 1, 2),
               TestRow("p1", "c3", "t1", FALSE, 1, 1),
               TestRow("p2", "d2", "t3", FALSE, 1, 1) >>,
            << FileRow("p1", "c2", "f1", Owners(2)),
               FileRow("p1", "c3", "f1", << "c0", "c0" >>),
               FileRow("p2", "d2", "g1", << "d2" >>) >>,
            IF inserted
            THEN << DiffRow("p1", "c1", "f1", << <<0, 0, 1, 1>> >>) >>
            ELSE <<>>,
            (IF cov1 = <<>> THEN <<>>
             ELSE << CoverageRow("p1", "c2", "t1", "f1", cov1[1]) >>)
            \o << CoverageRow("p1", "c3", "t1", "f1", <<1>>),
                  CoverageRow("p2", "d2", "t3", "g1", <<1>>) >>)
        EXCEPT !.commit = ClientCommitTable] :
        inserted \in BOOLEAN, cov1 \in CoverageChoices}

\* a caller holds a session on a store and has created `made` Prioritizers
InitClient(made) ==
    /\ db \in ClientStores
    /\ METHOD_MAPPING = IF made = 0 THEN None ELSE Some(MethodMappingOf(1))
    /\ pri = [i \in 1..made |-> NewPrioritizer]
    /\ pc = "client" /\ error = ""
    /\ projects = db.project /\ pidx = 1
    /\ commits = <<>> /\ cidx = 1
    /\ results = [m \in MethodSet |-> <<>>]
    /\ commit_results = None /\ commit_corr = None
    /\ assigned = <<>>

\* lines 34-61: Prioritizer(session); only the first __init__ fills the class
\* attribute, with its own bound methods
Construct ==
    /\ pc = "client" /\ Len(pri) < MaxInstances
    /\ pri' = Append(pri, NewPrioritizer)
    /\ METHOD_MAPPING' = IF METHOD_MAPPING = None
                         THEN Some(MethodMappingOf(Len(pri) + 1))
                         ELSE METHOD_MAPPING
    /\ UNCHANGED <<db, pc, error, projects, pidx, commits, cidx, results,
                   commit_results, commit_corr>>
    /\ UNCHANGED <<metric_vars, client_vars>>

\* lines 67-78: pri[i].target_project = value
ProjectAssigned(i, value) ==
    /\ pc = "client"
    /\ pri' = [pri EXCEPT ![i] = target_project_set(@, value)]
    /\ UNCHANGED <<db, METHOD_MAPPING, pc, error, projects, pidx, commits,
                   cidx, results, commit_results, commit_corr>>
    /\ UNCHANGED metric_vars

\* lines 84-125: pri[i].target_commit = value, a target project being set
CommitAssigned(i, value) ==
    /\ pc = "client" /\ pri[i]._target_project # None
    /\ pri' = [pri EXCEPT ![i] = target_commit_set(@, value)]
    /\ UNCHANGED <<db, METHOD_MAPPING, pc, error, projects, pidx, commits,
                   cidx, results, commit_results, commit_corr>>
    /\ UNCHANGED metric_vars

\* one Prioritizer, any project
AssignProject ==
    /\ Len(assigned) < MaxAssignments
    /\ \E p \in 1..Len(db.project) :
          /\ ProjectAssigned(1, db.project[p])
          /\ assigned' = Append(assigned, db.project[p].id)

\* one Prioritizer, any commit of the store
AssignCommit ==
    /\ Len(assigned) < MaxAssignments
    /\ \E c \in 1..Len(db.commit) :
          /\ CommitAssigned(1, db.commit[c])
          /\ assigned' = Append(assigned, db.commit[c].hash)

\* lines 86-89: with no target project, self._target_project.id raises after
\* _target_commit was assigned
AssignCommitUnset ==
    /\ pc = "client" /\ pri[1]._target_project = None
    /\ Len(assigned) < MaxAssignments
    /\ \E c \in 1..Len(db.commit) :
          /\ pri' = [pri EXCEPT ![1]._target_commit = Some(db.commit[c])]
          /\ assigned' = Append(assigned, db.commit[c].hash)
    /\ pc' = "raised"
    /\ error' = "AttributeError"
    /\ UNCHANGED <<db, METHOD_MAPPING, projects, pidx, commits, cidx,
                   results, commit_results, commit_corr>>
    /\ UNCHANGED metric_vars

NextAssign ==
    \/ AssignProject
    \/ AssignCommit
    \/ AssignCommitUnset

\* any assignments on one Prioritizer
InitAssign == InitClient(1) /\ MetricIdle
SpecAssign == InitAssign /\ [][NextAssign]_vars

\* any instance, any project
InstanceProject ==
    /\ \E i \in 1..Len(pri) : \E p \in 1..Len(db.project) :
          ProjectAssigned(i, db.project[p])
    /\ UNCHANGED client_vars

\* any instance, any commit of its target project
InstanceCommit ==
    /\ \E i \in 1..Len(pri) :
          /\ pri[i]._target_project # None
          /\ \E c \in 1..Len(pri[i]._data_commits[1]) :
                CommitAssigned(i, pri[i]._data_commits[1][c])
    /\ UNCHANGED client_vars

\* lines 182-186: pri[i].by_all().  commit_results also records the instance
\* called and the tests it had loaded.  The functions of METHOD_MAPPING are
\* bound to the instance that filled it; lines 131-132: the first of them
\* raises when that instance has no tests loaded.
CallByAll ==
    /\ pc = "client"
    /\ \E i \in 1..Len(pri) :
         LET first == METHOD_MAPPING[1][1].self
             own == IF pri[i]._data_tests = None THEN None
                    ELSE Some(TestValues(pri[i]))
         IN IF pri[first]._data_tests = None
            THEN /\ commit_results' =
                      Some([self |-> i, own |-> own,
                            exc |-> "AttributeError", val |-> <<>>])
                 /\ pc' = "raised" /\ error' = "AttributeError"
            ELSE \E shuffled \in Shuffles(TestValues(pri[first])) :
                   LET got == by_all(pri, METHOD_MAPPING[1], shuffled)
                   IN /\ commit_results' =
                           Some([self |-> i, own |-> own,
                                 exc |-> got.exc, val |-> got.val])
                      /\ pc' = IF got.exc # "" THEN "raised" ELSE pc
                      /\ error' = got.exc
    /\ UNCHANGED <<db, METHOD_MAPPING, pri, projects, pidx, commits, cidx,
                   results, commit_corr>>
    /\ UNCHANGED <<metric_vars, client_vars>>

NextInstances ==
    \/ Construct
    \/ InstanceProject
    \/ InstanceCommit
    \/ CallByAll

\* any number of Prioritizers, each assigned to and asked for its orderings
InitInstances == InitClient(0) /\ MetricIdle
SpecInstances == InitInstances /\ [][NextInstances]_vars

-----------------------------------------------------------------------------
(* The fault-detection metric: properties of SpecMetric *)

\* the failing tests strictly before position i of an ordering
FailsBefore(ts, i) == Cardinality({j \in 1..(i - 1) : ~ts[j].is_passed})
\* SUM(pass: 2k*d, fail: (2k+1)*d) over the first n tests
WeightedSum(ts, n) ==
    SumSeq([i \in 1..n |->
              (IF ts[i].is_passed THEN 2 * FailsBefore(ts, i)
               ELSE 2 * FailsBefore(ts, i) + 1) * ts[i].run_time])

\* C1: on an ordering with F >= 1 failing tests and total duration R, calculate
\* keeps in num_fail the number of failing tests strictly before the current
\* one and in total_area 100 * SUM(pass: 2k*d, fail: (2k+1)*d) / (2*F*R) over
\* the tests taken so far, and returns that sum over all of them; on the
\* ordering of the __main__ block it returns 78.75.
C1_ScoreIsWeightedSum ==
    (mpc \in {"loop", "returned"} /\ TotalFail(tests) >= 1) =>
        /\ mpc = "returned" => TotalRunTime(tests) > 0
        /\ TotalRunTime(tests) > 0 =>
              /\ num_fail = FailsBefore(tests, ti)
              /\ total_area =
                    Rat(100 * WeightedSum(tests, ti - 1),
                        2 * TotalFail(tests) * TotalRunTime(tests))
        /\ (mpc = "returned" /\ tests = ExampleTests)
              => total_area = Rat(315, 4)

\* calculate has returned 78.75 for the ordering of the __main__ block
C1_ExampleScored ==
    /\ mpc = "returned" /\ tests = ExampleTests
    /\ total_area = Rat(7875, 100)

\* C2 as stated: whenever a failing test was scored first and then last, the
\* other tests in place, the first score is strictly higher.
C2_FirstAlwaysHigher ==
    (mpc = "returned" /\ first_score # None) =>
        Less(total_area, first_score[1])

\* C2, amended: the ordering with the failing test f first scores strictly
\* higher than the one with f last exactly when the total duration of the
\* other tests exceeds (F - 1) times the duration of f.
C2_FirstHigherIffOthersOutlast ==
    (mpc = "returned" /\ first_score # None) =>
        LET f == tests[Len(tests)] IN
        Less(total_area, first_score[1])
            <=> (TotalRunTime(tests) - f.run_time
                    > (TotalFail(tests) - 1) * f.run_time)

\* both orderings were scored, two tests fail, and placing f first won
C2_FirstWonAmongTwoFailures ==
    /\ mpc = "returned" /\ first_score # None
    /\ TotalFail(tests) >= 2
    /\ tests[Len(tests)].run_time > 0
    /\ Less(total_area, first_score[1])

\* C11: on an ordering with F >= 1 failing tests and durations that are not
\* negative, the sum calculate keeps, and the score it returns, is a number
\* that is not negative.
C11_ScoreNotNegative ==
    (mpc \in {"loop", "returned"} /\ TotalFail(tests) >= 1) =>
        /\ ~IsRaised(total_area)
        /\ Leq(Num(0), total_area)

\* calculate has returned 0: a test passed before any failed, and the failing
\* tests took no time
C11_ScoredZero ==
    /\ mpc = "returned" /\ TotalFail(tests) >= 1
    /\ \E i \in 1..Len(tests) : tests[i].is_passed /\ tests[i].run_time > 0
    /\ total_area = Num(0)

-----------------------------------------------------------------------------
(* The ranking strategies: properties of SpecRank *)

\* by_all has run for the commit the Prioritizer is set to
Ranked ==
    /\ commit_results # None
    /\ pri[1]._target_commit # None
    /\ pri[1]._covering_hashes # None
    /\ commit_results[1].commit = pri[1]._target_commit[1].hash

\* what the ranking table states for each tag: the primary key, ascending
StatedKey(self, tag, test) ==
    CASE tag = "BaseLOCInc" -> Num(test.loc)
      [] tag = "BaseLOCDesc" -> Num(-test.loc)
      [] tag = "BaseCoverageInc" -> Num(_get_covered_loc(self, test))
      [] tag = "BaseCoverageDesc" -> Num(-_get_covered_loc(self, test))
      [] tag = "BaseRuntimeInc" -> Num(test.run_time)
      [] tag = "BaseRuntimeDesc" -> Num(-test.run_time)
      [] tag = "LatestCommitCount" ->
            Num(-_get_latest_commit_count(self, test))
      [] tag = "LatestCommitRatio" ->
            Rat(-_get_latest_commit_count(self, test),
                _get_covered_loc(self, test))
      [] tag = "CommitAheadSum" -> _get_ahead_count(self, test)
      [] OTHER -> Div(_get_ahead_count(self, test),
                      Num(_get_covered_loc(self, test)))

\* the primary key of the function a tag is bound to
PrimaryKey(self, func, desc, test) ==
    CASE func = "by_loc" -> Num(test.loc * Multiplier(desc))
      [] func = "by_coverage" ->
            Num(_get_covered_loc(self, test) * Multiplier(desc))
      [] func = "by_run_time" -> Num(test.run_time * Multiplier(desc))
      [] func = "by_latest_commit_count" ->
            Num(-_get_latest_commit_count(self, test))
      [] func = "by_latest_commit_ratio" ->
            Rat(-_get_latest_commit_count(self, test),
                _get_covered_loc(self, test))
      [] func = "by_commit_ahead_sum" -> _get_ahead_count(self, test)
      [] OTHER -> Div(_get_ahead_count(self, test),
                      Num(_get_covered_loc(self, test)))

C4_TiesByRunTime ==
    Ranked =>
        \A n \in 1..Len(commit_results[1].val) :
            LET item == commit_results[1].val[n]
                bound == Lookup(METHOD_MAPPING[1], "method", item.method)
            IN bound.func # "by_random" =>
                \A i, j \in 1..Len(item.tests) :
                    (/\ i < j
                     /\ PrimaryKey(pri[1], bound.func, bound.desc, item.tests[i])
                          = PrimaryKey(pri[1], bound.func, bound.desc,
                                       item.tests[j]))
                    => item.tests[i].run_time <= item.tests[j].run_time

\* list is a permutation of the tests loaded
IsPermutation(list, loaded) ==
    /\ Len(list) = Len(loaded)
    /\ \A t \in 1..Len(loaded) :
          Cardinality({i \in 1..Len(list) : list[i] = loaded[t]})
            = Cardinality({i \in 1..Len(loaded) : loaded[i] = loaded[t]})

\* C7 as stated: for every commit, every strategy returns a permutation of
\* the tests loaded: by_all returns a list under each of the eleven tags, and
\* each list holds every loaded test exactly once and nothing else.
C7_EveryStrategyPermutes ==
    Ranked =>
        /\ commit_results[1].exc = ""
        /\ {commit_results[1].val[n].method :
              n \in 1..Len(commit_results[1].val)} = MethodSet
        /\ \A n \in 1..Len(commit_results[1].val) :
              IsPermutation(commit_results[1].val[n].tests, TestValues(pri[1]))

-----------------------------------------------------------------------------
(* The attribution engine: properties of SpecAttr *)

\* the assignment pri.target_commit = commit has just run to its end
Attributed == pc = "loaded"

\* the lines of a file at the parent: the sentinel of the stored list is not
\* a line
LinesOf(file) == Len(file.line_touched_hashes) - 1

\* what C5 states for one hunk: new_count when the hunk is a pure insertion
\* and the parent's lines old_start and old_start + 1, between which the
\* lines go, are both covered or outside the file; nothing otherwise
StatedInsertion(hunk, covered, lines) ==
    IF hunk[2] = 0 /\ hunk[4] > 0
       /\ (hunk[1] < 1 \/ \E i \in 1..Len(covered) : covered[i] = hunk[1])
       /\ (hunk[1] + 1 > lines
             \/ \E i \in 1..Len(covered) : covered[i] = hunk[1] + 1)
    THEN hunk[4] ELSE 0

\* C5 as stated: for every file a test covers and every hunk of the target
\* commit in it, the pass of the loop over that hunk adds new_count
\* occurrences of the commit's hash when the hunk is a pure insertion whose
\* two boundary lines at the parent are covered (or outside the file), and
\* none otherwise.
C5_InsertionCountsWhenSurrounded ==
    Attributed =>
        \A f \in 1..Len(pri[1]._data_files[1]) :
        \A t \in 1..Len(pri[1]._data_coverages[1]) :
            LET file == pri[1]._data_files[1][f]
                cov == pri[1]._data_coverages[1][t].files
                diffs == pri[1]._data_diffs[1]
            IN (Has(cov, "file_path", file.path)
                  /\ Has(diffs, "path", file.path)) =>
                 LET covered == Lookup(cov, "file_path", file.path).lines_covered
                     hunks == Lookup(diffs, "path", file.path).hunks
                 IN \A h \in 1..Len(hunks) :
                      HunkStep(pri[1],
                               [counter |-> EmptyBag,
                                file_hashes |-> file.line_touched_hashes],
                               hunks[h], covered,
                               Len(file.line_touched_hashes)).counter
                        = Copies(pri[1]._target_commit[1].hash,
                                 StatedInsertion(hunks[h], covered,
                                                 LinesOf(file)))

\* the hunks of the target commit in a file, <<>> without a Diff row
HunksIn(self, path) ==
    IF Has(self._data_diffs[1], "path", path)
    THEN Lookup(self._data_diffs[1], "path", path).hunks ELSE <<>>
NoPureInsertion(hunks) ==
    \A h \in 1..Len(hunks) : ~(hunks[h][2] = 0 /\ hunks[h][4] > 0)

\* the owners the stored list gives the covered lines of a file: for the
\* line l its element l - 1, counting from 0
RECURSIVE BlameCounts(_, _)
BlameCounts(files, cov) ==
    IF files = <<>> THEN EmptyBag
    ELSE LET file == Head(files) IN
         (IF Has(cov, "file_path", file.path)
          THEN LET covered == Lookup(cov, "file_path", file.path).lines_covered
               IN BagOfSeq([i \in 1..Len(covered) |->
                              file.line_touched_hashes[covered[i]]])
          ELSE EmptyBag)
         (+) BlameCounts(Tail(files), cov)

\* C6: when no file of the parent has a pure-insertion hunk of the target
\* commit, the covering-hash multiset of every test counts, for each owner h,
\* the covered lines l with blame[l - 1] = h and nothing else, and the lists
\* the Prioritizer holds are the stored ones.
C6_OnlyBlameWithoutInsertion ==
    Attributed =>
        /\ pri[1]._data_files[1]
             = FilesOf(pri[1], pri[1]._target_commit[1])
        /\ (\A f \in 1..Len(pri[1]._data_files[1]) :
               NoPureInsertion(HunksIn(pri[1], pri[1]._data_files[1][f].path)))
           => \A t \in 1..Len(pri[1]._covering_hashes[1]) :
                pri[1]._covering_hashes[1][t].counter
                  = BlameCounts(pri[1]._data_files[1],
                                pri[1]._data_coverages[1][t].files)

\* a test covers both lines of a file the target commit modified, and owes
\* them to the owners the stored list names
C6_ModifiedFileCounted ==
    /\ Attributed
    /\ \E f \in 1..Len(pri[1]._data_files[1]) :
          LET hunks == HunksIn(pri[1], pri[1]._data_files[1][f].path) IN
          /\ NoPureInsertion(hunks)
          /\ \E h \in 1..Len(hunks) : hunks[h][2] > 0 /\ hunks[h][4] > 0
    /\ \E t \in 1..Len(pri[1]._covering_hashes[1]) :
          /\ CopiesIn("None", pri[1]._covering_hashes[1][t].counter) = 1
          /\ CopiesIn("c2", pri[1]._covering_hashes[1][t].counter) = 1

\* the lines the Coverage rows of the store give a loaded test
StoredCoveredLines(self, test) ==
    LET rows == SelectSeq(db.coverage,
                          LAMBDA r : /\ r.project_id = test.project_id
                                     /\ r.commit_hash = test.commit_hash
                                     /\ r.tc_id = test.id)
    IN SumSeq([i \in 1..Len(rows) |-> Len(rows[i].lines_covered)])

\* C10: coveredLineCount of a loaded test is 1 when its Coverage rows hold no
\* line or it has none, and the number of lines they hold otherwise; neither
\* ratio strategy nor get_raw_values raises ZeroDivisionError, and main()
\* ends with a ZeroDivisionError only where it divides by the number of
\* scores.
C10_NoDivisionByCoveredLoc ==
    /\ Attributed =>
         /\ \A t \in 1..Len(TestValues(pri[1])) :
               LET n == StoredCoveredLines(pri[1], TestValues(pri[1])[t]) IN
               _get_covered_loc(pri[1], TestValues(pri[1])[t])
                  = IF n = 0 THEN 1 ELSE n
         /\ by_latest_commit_ratio(pri[1]).exc # "ZeroDivisionError"
         /\ by_commit_ahead_average(pri[1]).exc # "ZeroDivisionError"
         /\ get_raw_values(pri[1]).exc # "ZeroDivisionError"
    /\ error = "ZeroDivisionError" => pidx > Len(projects)

\* by_all and get_raw_values have returned for a commit with a test whose
\* Coverage row holds no line and a test that has no Coverage row
C10_RankedWithoutCoverage ==
    /\ Ranked /\ commit_results[1].exc = "" /\ commit_corr # None
    /\ \E t \in 1..Len(pri[1]._data_coverages[1]) :
          /\ pri[1]._data_coverages[1][t].files # <<>>
          /\ StoredCoveredLines(pri[1], TestValues(pri[1])[t]) = 0
    /\ \E t \in 1..Len(pri[1]._data_coverages[1]) :
          pri[1]._data_coverages[1][t].files = <<>>

\* the owners the stored list gives the covered lines of one file, counted
OwnersOfCovered(file, covered) ==
    LET owner(i) == file.line_touched_hashes[covered[i]]
    IN [h \in {owner(i) : i \in 1..Len(covered)} |->
          Cardinality({i \in 1..Len(covered) : owner(i) = h})]

\* what one file adds to the multiset of one test
Contribution(self, file, test) == FileStep(self, EmptyBag, file, test.id)
\* the file has a Coverage row for the test, a Diff row of the target commit
CoverageEntry(self, file, test) ==
    Has(Lookup(self._data_coverages[1], "tc_id", test.id).files,
        "file_path", file.path)
DiffEntry(self, file) == Has(self._data_diffs[1], "path", file.path)

\* C13 as stated: a file without a Coverage row for the test, or without a
\* Diff row of the target commit, adds nothing to the test's multiset.
C13_MissingEntryAddsNothing ==
    Attributed =>
        \A f \in 1..Len(pri[1]._data_files[1]) :
        \A t \in 1..Len(TestValues(pri[1])) :
            LET file == pri[1]._data_files[1][f]
                test == TestValues(pri[1])[t]
            IN (~CoverageEntry(pri[1], file, test) \/ ~DiffEntry(pri[1], file))
                 => Contribution(pri[1], file, test) = EmptyBag

\* C13, amended: a file without a Coverage row for the test adds nothing to
\* the test's multiset; a file with one and without a Diff row of the target
\* commit adds the owners the stored list gives the covered lines, and no
\* occurrence of the target commit's hash.
C13_MissingDiffLeavesBlame ==
    Attributed =>
        \A f \in 1..Len(pri[1]._data_files[1]) :
        \A t \in 1..Len(TestValues(pri[1])) :
            LET file == pri[1]._data_files[1][f]
                test == TestValues(pri[1])[t]
                cov == Lookup(pri[1]._data_coverages[1], "tc_id", test.id).files
                added == Contribution(pri[1], file, test)
            IN /\ ~CoverageEntry(pri[1], file, test) =>
                    /\ added = EmptyBag
                    /\ (Len(pri[1]._data_files[1]) = 1 =>
                          pri[1]._covering_hashes[1][t].counter = EmptyBag)
               /\ (CoverageEntry(pri[1], file, test)
                    /\ ~DiffEntry(pri[1], file)) =>
                    /\ added = OwnersOfCovered(file,
                          Lookup(cov, "file_path", file.path).lines_covered)
                    /\ CopiesIn(pri[1]._target_commit[1].hash, added) = 0
                    /\ (Len(pri[1]._data_files[1]) = 1 =>
                          pri[1]._covering_hashes[1][t].counter = added)

\* the target commit left a file alone: a test that covers two lines of it
\* owes them to their owners, and a test without a Coverage row owes nothing
C13_UnchangedFileCounted ==
    /\ Attributed
    /\ \E f \in 1..Len(pri[1]._data_files[1]) :
       \E t, u \in 1..Len(TestValues(pri[1])) :
          LET file == pri[1]._data_files[1][f] IN
          /\ ~DiffEntry(pri[1], file)
          /\ CoverageEntry(pri[1], file, TestValues(pri[1])[t])
          /\ BagCardinality(pri[1]._covering_hashes[1][t].counter) = 2
          /\ ~CoverageEntry(pri[1], file, TestValues(pri[1])[u])
          /\ pri[1]._covering_hashes[1][u].counter = EmptyBag

\* what C12 states for a test: over the hashes of its multiset that have a
\* Commit row, the sum of (seq(hash) - minSeq) * count, seq being id_num and
\* minSeq the least id_num among those hashes; 0 when there is none
StatedAheadCount(self, test) ==
    LET counter == Lookup(self._covering_hashes[1], "tc_id", test.id).counter
        recorded == SelectSeq(self._data_commits[1],
                              LAMBDA c : c.hash \in BagToSet(counter))
        seqs == {recorded[i].id_num : i \in 1..Len(recorded)}
    IN IF recorded = <<>> THEN 0
       ELSE LET minSeq == CHOOSE m \in seqs : \A n \in seqs : m <= n
            IN SumSeq([i \in 1..Len(recorded) |->
                         (recorded[i].id_num - minSeq)
                         * CopiesIn(recorded[i].hash, counter)])

\* C12 as stated: for every loaded test _get_ahead_count returns the sum of
\* (seq(hash) - minSeq) * count over the hashes of the test's multiset that
\* have a Commit row, a number that is not negative.
C12_AheadCountIsSeqDistance ==
    Attributed =>
        \A t \in 1..Len(TestValues(pri[1])) :
            /\ _get_ahead_count(pri[1], TestValues(pri[1])[t])
                 = Num(StatedAheadCount(pri[1], TestValues(pri[1])[t]))
            /\ StatedAheadCount(pri[1], TestValues(pri[1])[t]) >= 0

-----------------------------------------------------------------------------
(* The driver: properties of Spec *)

\* the commits of the projects main() is through with
RECURSIVE CommitsOfFirst(_)
CommitsOfFirst(n) ==
    IF n = 0 THEN <<>>
    ELSE CommitsOfFirst(n - 1)
         \o SelectSeq(db.commit, LAMBDA c : c.project_id = projects[n].id)
\* the commits the loops of main() are through with
Processed ==
    CommitsOfFirst(pidx - 1)
    \o (IF pc # "projects" /\ pidx <= Len(projects)
        THEN SubSeq(commits, 1, cidx - 1) ELSE <<>>)

\* the Test rows stored under a hash have a failing one
FailsUnder(project_id, hash) ==
    \E i \in 1..Len(db.test) :
        /\ db.test[i].project_id = project_id
        /\ db.test[i].commit_hash = hash
        /\ ~db.test[i].is_passed

C9_ReadFailureNotFatal ==
    error = "OperationalError" => pc # "raised"

-----------------------------------------------------------------------------
(* The Prioritizer's state across assignments: properties of SpecAssign *)

\* a Prioritizer created for the purpose and assigned project, then commit
FreshlyLoaded(project, commit) ==
    target_commit_set(target_project_set(NewPrioritizer, project), commit)
\* the Project row a commit belongs to
ProjectOf(commit) ==
    Lookup(db.project, "id", commit.project_id)
\* the relations a commit assignment loads and the multisets it caches
Relations(self) ==
    << self._data_files, self._data_tests, self._data_diffs,
       self._data_coverages, self._covering_hashes >>
\* the strategies other than by_random, bound to the one object of objs
NonRandom(objs) == by_all(objs, Tail(MethodMappingOf(1)), <<>>)
\* the last assignment completed and was of a commit
CommitLoaded ==
    /\ pc = "client" /\ assigned # <<>>
    /\ pri[1]._target_commit # None
    /\ assigned[Len(assigned)] = pri[1]._target_commit[1].hash

\* C14 as stated: after any sequence of target_project and target_commit
\* assignments on one Prioritizer that ends with assigning commit C of project
\* P, the assignment has completed and the loaded relations and the cached
\* multisets are those computed from C's facts alone.
C14_LoadedFromCommitAlone ==
    /\ error # "AttributeError"
    /\ CommitLoaded =>
          LET C == pri[1]._target_commit[1]
          IN Relations(pri[1]) = Relations(FreshlyLoaded(ProjectOf(C), C))

\* C14, amended: after any sequence of target_project and target_commit
\* assignments on one Prioritizer that ends with assigning commit C of project
\* P while P is the target project, the whole state of the Prioritizer is the
\* one a new Prioritizer has after being assigned P and then C, with one
\* multiset per loaded test under the same test ids in the same order, and
\* every strategy other than by_random returns what it returns on that new
\* Prioritizer, whatever was assigned before.
C14_LoadedFromTargetAlone ==
    (CommitLoaded
       /\ pri[1]._target_project[1].id = pri[1]._target_commit[1].project_id)
    => LET self == pri[1]
           C == self._target_commit[1]
           fresh == FreshlyLoaded(ProjectOf(C), C)
       IN /\ self = fresh
          /\ [i \in 1..Len(self._covering_hashes[1]) |->
                self._covering_hashes[1][i].tc_id]
               = [i \in 1..Len(TestValues(self)) |-> TestValues(self)[i].id]
          /\ NonRandom(<< self >>) = NonRandom(<< fresh >>)

\* C14's case: c1 of p1 was assigned after a commit of p2 and another commit
\* of p1 had been loaded, and a test of c1 has a multiset that is not empty.
C14_ReloadedAfterOthers ==
    /\ CommitLoaded
    /\ assigned = << "p2", "d1", "p1", "c2" >> \o << "c1" >>
    /\ \E i \in 1..Len(pri[1]._covering_hashes[1]) :
          pri[1]._covering_hashes[1][i].counter # EmptyBag

-----------------------------------------------------------------------------
(* Several Prioritizers: properties of SpecInstances *)

\* C15 as stated: for any number of Prioritizer instances created in any
\* order, by_all called on an instance returns orderings of the tests loaded
\* in that same instance, never the tests of another instance.
C15_ByAllOfOwnTests ==
    (pc = "client" /\ commit_results # None /\ commit_results[1].exc = "")
    => /\ commit_results[1].own # None
       /\ \A r \in 1..Len(commit_results[1].val) :
             IsPermutation(commit_results[1].val[r].tests,
                           commit_results[1].own[1])

====
